---- MODULE Spec2Model ----
(***************************************************************************)
(* Model of app.py: the Streamlit risk dashboard.  One script run walks    *)
(* the page top to bottom: the cached ratio fetch get_taifex_chips(), the   *)
(* six cached get_market_data(symbol) calls, then the sidebar with the     *)
(* manual-refresh button and the 60 second auto-refresh countdown.         *)
(***************************************************************************)
EXTENDS Integers, Sequences, FiniteSets, TLC

\* ---------------------------------------------------------------- bounds
MaxRuns == 3          \* script runs (reruns included) explored
MaxIdle == 2          \* waits of the user while the script is not running
FreeTail == 5         \* freely chosen closing prices at the end of a series

\* ------------------------------------------------------ program constants
TTL_CHIPS == 3600     \* @st.cache_data(ttl=3600)
TTL_MARKET == 60      \* @st.cache_data(ttl=60)
Horizon == 7          \* for i in range(7)
MinPoints == 15       \* if len(data) < 15: return None
Window == 14          \* rolling(window=14)
Threshold == 100      \* ratio > 100
CountdownSeconds == 60 \* for i in range(60, 0, -1): time.sleep(1)
SecondsPerDay == 86400 \* datetime.timedelta(days=i)

\* The ratio singleton key and the configured instrument symbols, in page order.
CHIPS == "get_taifex_chips"
stress_tickers == <<"^VIX", "DX-Y.NYB", "^TNX", "JPY=X">>
asset_tickers == <<"EWT", "BTC-USD">>
Tickers == stress_tickers \o asset_tickers
Keys == {CHIPS} \cup {Tickers[n] : n \in 1..Len(Tickers)}

\* The value both fetchers return on failure.
None == [kind |-> "None"]

\* ------------------------------------------------------------ the cache
\* st.cache_data keeps, per function and arguments, the returned value and the
\* time it was stored; an entry is served while now - at < ttl.
Absent == [has |-> FALSE, val |-> None, at |-> 0, called |-> 0]

TTLMarketForAll(key) == TTL_MARKET
TTL(key) == IF key = CHIPS THEN TTL_CHIPS ELSE TTL_MARKET

ValidInverted(e, now, ttl) == e.has /\ now - e.at > ttl
ValidLate(e, now, ttl) == e.has /\ now - e.at <= ttl
Valid(e, now, ttl) == e.has /\ now - e.at < ttl

\* The wrapper stores whatever the function returned, None included.
\* (called: when the call that computed it came in, kept for the record.)
Store(c, key, val, called, now) ==
  [c EXCEPT ![key] = [has |-> TRUE, val |-> val, at |-> now, called |-> called]]

ClearMarketOnly(c) == [k \in Keys |-> IF k = CHIPS THEN c[k] ELSE Absent]
\* st.cache_data.clear()
Clear(c) == [k \in Keys |-> Absent]

\* ------------------------------------------------- the ratio source (env)
\* A response of the exchange for one single-day query: whether the POST came
\* back at all, what the text decode and the big5 decode of the payload give
\* ("fail" or a table).  A table has a header (cols: whether the two expected
\* columns are there) and rows of (date label, ratio cell); a cell is a number
\* (num) or text that float() rejects.
Num(v) == [num |-> TRUE, v |-> v]
Text == [num |-> FALSE, v |-> 0]
Row(d, r) == [date |-> d, ratio |-> r]
Table(c, rs) == [cols |-> c, rows |-> rs]
NoTable == [cols |-> FALSE, rows |-> <<>>]
Resp(p, t, b) == [post |-> p, text |-> t, big5 |-> b]
Decoded(t) == [ok |-> TRUE, df |-> t]
Undecodable == [ok |-> FALSE, df |-> NoTable]

Responses ==
  { Resp(FALSE, Undecodable, Undecodable),                                  \* requests.post raises
    Resp(TRUE, Undecodable, Undecodable),                                   \* neither decode parses
    Resp(TRUE, Decoded(Table(TRUE, <<>>)), Undecodable),                    \* header only: empty table
    Resp(TRUE, Undecodable, Decoded(Table(TRUE, <<>>))),                    \* empty, big5 payload
    Resp(TRUE, Decoded(Table(FALSE, <<Row("11/19", Num(101))>>)), Undecodable),   \* columns missing
    Resp(TRUE, Decoded(Table(TRUE, <<Row("11/19", Text)>>)), Undecodable),    \* ratio not a number
    Resp(TRUE, Decoded(Table(TRUE, <<Row("11/20", Num(101))>>)), Undecodable),    \* one valid row
    Resp(TRUE, Undecodable, Decoded(Table(TRUE, <<Row("11/19", Num(95)), Row("11/20", Num(100))>>))) }

\* try: df = pd.read_csv(io.StringIO(res.text)) except: df = pd.read_csv(io.BytesIO(res.content), encoding='big5')
Decode(resp) == IF resp.text.ok THEN resp.text ELSE resp.big5

\* float(x): a number converts, anything else raises.
FloatOk(x) == x.num
Float(x) == x.v

StatusGE(ratio) == IF ratio >= Threshold THEN "SUPPORTIVE" ELSE "BEARISH"
Status(ratio) == IF ratio > Threshold THEN "SUPPORTIVE" ELSE "BEARISH"

\* except: continue  (line 74): any error of an iteration moves on to the next.
OnErrorRaise == [how |-> "raise", val |-> None]
OnError == [how |-> "next", val |-> None]

\* The row the result is read from: row = df.iloc[-1]  (line 67).
LastRow(t) == t.rows[Len(t.rows)]

\* The body of one loop iteration, lines 56-75: "return" with the value returned
\* from inside the loop, "next" when the iteration falls through (empty table)
\* or its except continues, "raise" when an error leaves the function.
ProbeStep(resp) ==
  IF ~resp.post THEN OnError
  ELSE LET d == Decode(resp) IN
       IF ~d.ok THEN OnError
       ELSE IF d.df.rows = <<>> THEN [how |-> "next", val |-> None]
       ELSE LET row == LastRow(d.df) IN
            IF ~d.df.cols \/ ~FloatOk(row.ratio) THEN OnError
            ELSE [how |-> "return",
                  val |-> [kind |-> "chips", date |-> row.date,
                           pc_ratio |-> Float(row.ratio), status |-> Status(Float(row.ratio))]]

\* for i in range(7): the offset after i, and whether i was the last one.
NextOffsetSkip(i) == i + 2
NextOffset(i) == i + 1
ExhaustedLate(i) == i > Horizon
Exhausted(i) == i >= Horizon

\* target_date = datetime.datetime.now(tw) - datetime.timedelta(days=i), as a day number.
Day(t) == t \div SecondsPerDay
TargetDate(wall, i) == Day(wall) - i

\* The requests iteration i sends, lines 48-57: one POST for the target date
\* (queryStartDate = queryEndDate = date); the big5 fallback decodes the same
\* payload again and sends nothing.
PostsRefetch(i, wall, resp) ==
  IF resp.post /\ ~resp.text.ok
  THEN <<[offset |-> i, date |-> TargetDate(wall, i)], [offset |-> i, date |-> TargetDate(wall, i)]>>
  ELSE <<[offset |-> i, date |-> TargetDate(wall, i)]>>
Posts(i, wall, resp) == <<[offset |-> i, date |-> TargetDate(wall, i)]>>

\* Classification of a response, for the history the claims speak about.
IsEmptyTable(resp) == resp.post /\ Decode(resp).ok /\ Decode(resp).df.rows = <<>>
IsError(resp) ==
  \/ ~resp.post
  \/ ~Decode(resp).ok
  \/ /\ Decode(resp).df.rows # <<>>
     /\ \/ ~Decode(resp).df.cols
        \/ ~FloatOk(Decode(resp).df.rows[Len(Decode(resp).df.rows)].ratio)
ErrorKind(resp) ==
  IF ~resp.post THEN {"request"}
  ELSE IF ~Decode(resp).ok THEN {"decode"}
  ELSE IF IsError(resp) THEN {"extract"}
  ELSE {}
IsValidTable(resp) == ~IsEmptyTable(resp) /\ ~IsError(resp)

\* ------------------------------------------------ the price source (env)
\* What yf.download gives: it raises (ok = FALSE) or returns the closing prices.
Download(ok, close) == [ok |-> ok, close |-> close]

\* A series that goes 12, 11, 13, 12, 14, ...: gains and losses both.
Zigzag(n) == [k \in 1..n |-> IF k % 2 = 1 THEN 11 + (k + 1) \div 2 ELSE 10 + k \div 2]

Downloads ==
  { Download(FALSE, <<>>),                  \* the network call raises
    Download(TRUE, Zigzag(MinPoints - 1)),  \* too few points
    Download(TRUE, Zigzag(MinPoints)) }

\* The downloads one get_market_data call makes, line 83: one, never retried.
FetchesRetried(dl) == IF dl.ok THEN <<dl>> ELSE <<dl, dl>>
Fetches(dl) == <<dl>>

\* Floats: a finite value num/den, or nan.  inf never survives to a result.
Rat(n, d) == [t |-> "num", num |-> n, den |-> d]
NaN == [t |-> "nan", num |-> 0, den |-> 1]

RECURSIVE SumSeq(_)
SumSeq(q) == IF q = <<>> THEN 0 ELSE q[1] + SumSeq(Tail(q))

\* delta = data['Close'].diff(), the last 14 of them (rolling(window=14), .iloc[-1]).
\* The first row's diff is NaN, which where(delta > 0, 0) and where(delta < 0, 0)
\* both replace by 0.
Delta(close, k) == IF k <= 1 THEN 0 ELSE close[k] - close[k - 1]
WindowDeltas(close) == [k \in 1..Window |-> Delta(close, Len(close) - Window + k)]
Gain(d) == IF d > 0 THEN d ELSE 0
LossSigned(d) == IF d < 0 THEN d ELSE 0
Loss(d) == IF d < 0 THEN -d ELSE 0
SumGain(close) == SumSeq([k \in 1..Window |-> Gain(WindowDeltas(close)[k])])
SumLoss(close) == SumSeq([k \in 1..Window |-> Loss(WindowDeltas(close)[k])])

\* rs = gain / loss; rsi = 100 - (100 / (1 + rs)) on floats: x/0 is inf, 0/0 is
\* nan, 100/(1 + inf) is 0.  With the two means over the same 14 periods,
\* 100 - 100/(1 + sg/sl) = 100*sg/(sg + sl).
Rsi(sg, sl) ==
  IF sl = 0 THEN (IF sg = 0 THEN NaN ELSE Rat(100, 1))
  ELSE Rat(100 * sg, sg + sl)

\* except: return None  (line 99)
Failed == [how |-> "return", val |-> None]
OnFetchErrorRaise == [how |-> "raise", val |-> None]
OnFetchError == Failed

\* if len(data) < 15: return None  (line 85)
TooFewOff(n) == n < Window
TooFew(n) == n < MinPoints

\* (current_price - prev_close) / prev_close on Python floats (line 89):
\* a zero divisor raises ZeroDivisionError.
DivNeverRaises(den) == FALSE
DivRaises(den) == den = 0

\* get_market_data(ticker), lines 82-99, on what the download gave.
get_market_data(dl) ==
  IF ~dl.ok THEN OnFetchError
  ELSE IF TooFew(Len(dl.close)) THEN Failed
  ELSE LET current_price == dl.close[Len(dl.close)]
           prev_close == dl.close[Len(dl.close) - 1]
       IN  IF DivRaises(prev_close) THEN OnFetchError
           ELSE [how |-> "return",
                 val |-> [kind |-> "data", price |-> current_price,
                          change |-> IF prev_close = 0 THEN NaN
                                     ELSE Rat((current_price - prev_close) * 100, prev_close),
                          rsi |-> Rsi(SumGain(dl.close), SumLoss(dl.close)),
                          history |-> dl.close]]

\* if chips: / if data:  -- what the page shows for a value.
Render(val) == IF val = None THEN "loading" ELSE "data"

\* ------------------------------------------------------------ the state
VARIABLES
  pc,            \* where the script run is: "chips", "walk", "ret", "inst",
                 \* "sidebar", "countdown", "idle" (run over, page waits), "crashed"
  idx,           \* the instrument the layout loops are at, 1..6
  off,           \* i of the loop in get_taifex_chips
  called,        \* when the get_taifex_chips call in progress came in
  ret,           \* what get_taifex_chips is returning
  cache,         \* st.cache_data: key -> entry
  clock,         \* seconds since the process started (the cache's timer)
  boot,          \* Taipei wall-clock time at process start, in seconds
  auto_refresh,  \* the sidebar checkbox
  button,        \* whether this run was triggered by the refresh button
  runs,          \* script runs so far
  idles,         \* user waits so far
  reqs,          \* history: the POSTs of the call in progress, in order
  walk,          \* history: how many responses of it were empty / errors, and the last
  ev,            \* history: the last completed cached call
  requested,     \* history: the keys this run asked the cache for, in order
  rendered,      \* history: what this run showed for each
  cost,          \* history: how many network requests each of them made
  cleared,       \* history: keys not asked for since the last st.cache_data.clear()
  ratioAt,       \* history: when the last call that fetched a ratio came in, since
                 \* the last manual refresh (-1: none)
  net            \* the world outside: what the network can do in this behaviour

vars == <<pc, idx, off, called, ret, cache, clock, boot, auto_refresh, button, runs,
          idles, reqs, walk, ev, requested, rendered, cost, cleared, ratioAt, net>>

\* Inputs of the environment.
Latency == {0, 1}                                   \* seconds a network call takes
BootTimes == {0, SecondsPerDay - 1}                 \* started at midnight, or a second before
SleepsBeforeEvent == {1, CountdownSeconds - 1}      \* countdown sleeps done when the user acts
IdleWaits == {1, TTL_CHIPS - TTL_MARKET}

\* A world fixes how long a network call takes and what the two sources can
\* answer.  Worlds: the sources behave one way throughout (all the walk's days
\* empty, a row for today, some days in error before a row; downloads failing,
\* short or good).  AnyWorld: every call may get any answer.
Worlds ==
  [lat : Latency,
   responses : { {Resp(TRUE, Decoded(Table(TRUE, <<>>)), Undecodable)},
                 {Resp(TRUE, Decoded(Table(TRUE, <<Row("11/20", Num(101))>>)), Undecodable)},
                 {Resp(FALSE, Undecodable, Undecodable),
                  Resp(TRUE, Undecodable, Decoded(Table(TRUE, <<Row("11/19", Num(95)), Row("11/20", Num(100))>>)))} },
   downloads : { {Download(FALSE, <<>>)}, {Download(TRUE, Zigzag(MinPoints))},
                 {Download(TRUE, Zigzag(MinPoints - 1))} }]
AnyWorlds == [lat : Latency, responses : {Responses}, downloads : {Downloads}]

NoResp == Resp(FALSE, Undecodable, Undecodable)
NoWalk == [n |-> 0, empties |-> 0, errors |-> 0, kinds |-> {}, last |-> NoResp]
\* A completed cached call: the entry it found (had, prevVal, prevAt,
\* prevCalled), when it came in, whether the function ran and on what download,
\* the value it gave and when that value was produced, when it returned, and
\* whether it was the key's first call since a clear.
NoDownload == Download(FALSE, <<>>)
NoCall == [key |-> "", had |-> FALSE, prevVal |-> None, prevAt |-> 0, prevCalled |-> 0,
           called |-> 0, computed |-> FALSE, src |-> NoDownload, val |-> None, at |-> 0,
           now |-> 0, first |-> FALSE]

CallRecord(key, e, computed, dl, val, at, now, cl) ==
  [key |-> key, had |-> e.has, prevVal |-> e.val, prevAt |-> e.at, prevCalled |-> e.called,
   called |-> cl, computed |-> computed, src |-> dl, val |-> val, at |-> at, now |-> now,
   first |-> key \in cleared]

InitScript ==
  /\ pc = "chips" /\ idx = 1 /\ off = 0 /\ called = 0 /\ ret = None
  /\ cache = [k \in Keys |-> Absent]
  /\ clock = 0
  /\ boot \in BootTimes
  /\ auto_refresh = TRUE
  /\ button = FALSE
  /\ runs = 1 /\ idles = 0
  /\ reqs = <<>> /\ walk = NoWalk /\ ev = NoCall
  /\ requested = <<>> /\ rendered = <<>> /\ cost = <<>>
  /\ cleared = {}
  /\ ratioAt = -1

Init == InitScript /\ net \in Worlds
InitRun == InitScript /\ net \in AnyWorlds

\* ------------------------------------------------------------ the script
\* chips = get_taifex_chips()  (line 141), the cached wrapper: serve a valid
\* entry and show it, or enter the function.
ChipsCall ==
  /\ pc = "chips"
  /\ requested' = Append(requested, CHIPS)
  /\ IF Valid(cache[CHIPS], clock, TTL(CHIPS))
     THEN /\ ev' = CallRecord(CHIPS, cache[CHIPS], FALSE, NoDownload, cache[CHIPS].val,
                              cache[CHIPS].at, clock, clock)
          /\ rendered' = Append(rendered, Render(cache[CHIPS].val))
          /\ cost' = Append(cost, 0)
          /\ cleared' = cleared \ {CHIPS}
          /\ pc' = "inst" /\ idx' = 1
          /\ UNCHANGED <<off, called, reqs, walk>>
     ELSE /\ pc' = "walk" /\ off' = 0 /\ called' = clock
          /\ reqs' = <<>> /\ walk' = NoWalk
          /\ UNCHANGED <<ev, rendered, cost, cleared, idx>>
  /\ UNCHANGED <<ret, cache, clock, boot, auto_refresh, button, runs, idles, ratioAt, net>>

\* One iteration of the loop of get_taifex_chips (lines 47-75): the request for
\* offset off takes d seconds and comes back as resp.
Probe(resp, d) ==
  /\ pc = "walk"
  /\ reqs' = reqs \o Posts(off, boot + clock, resp)
  /\ clock' = clock + d
  /\ walk' = [n |-> walk.n + 1,
              empties |-> walk.empties + (IF IsEmptyTable(resp) THEN 1 ELSE 0),
              errors |-> walk.errors + (IF IsError(resp) THEN 1 ELSE 0),
              kinds |-> walk.kinds \cup ErrorKind(resp),
              last |-> resp]
  /\ LET step == ProbeStep(resp) IN
       IF step.how = "return" THEN pc' = "ret" /\ ret' = step.val /\ off' = off
       ELSE IF step.how = "raise" THEN pc' = "crashed" /\ ret' = None /\ off' = off
       ELSE IF Exhausted(NextOffset(off)) THEN pc' = "ret" /\ ret' = None /\ off' = off
       ELSE pc' = "walk" /\ ret' = None /\ off' = NextOffset(off)
  /\ UNCHANGED <<idx, called, cache, boot, auto_refresh, button, runs, idles, ev,
                 requested, rendered, cost, cleared, ratioAt, net>>

\* get_taifex_chips returns: the wrapper stores the value, the page shows it
\* (lines 142-149); the locals of the call are gone.
ChipsReturn ==
  /\ pc = "ret"
  /\ cache' = Store(cache, CHIPS, ret, called, clock)
  /\ ev' = CallRecord(CHIPS, cache[CHIPS], TRUE, NoDownload, ret, clock, clock, called)
  /\ rendered' = Append(rendered, Render(ret))
  /\ cost' = Append(cost, Len(reqs))
  /\ cleared' = cleared \ {CHIPS}
  /\ pc' = "inst" /\ idx' = 1
  /\ off' = 0 /\ called' = 0 /\ ret' = None /\ reqs' = <<>> /\ walk' = NoWalk
  /\ ratioAt' = IF ret # None THEN called ELSE ratioAt
  /\ UNCHANGED <<clock, boot, auto_refresh, button, runs, idles, requested, net>>

\* data = get_market_data(symbol) and its rendering, for the instrument at idx
\* (lines 158-166 and 173-181); a download, if one is made, takes d seconds
\* and gives dl.
Instrument(dl, d) ==
  /\ pc = "inst"
  /\ LET key == Tickers[idx]
         e == cache[key]
         out == get_market_data(dl)
         go == IF idx < Len(Tickers) THEN "inst" ELSE "sidebar"
     IN
       /\ requested' = Append(requested, key)
       /\ IF Valid(e, clock, TTL(key))
          THEN /\ ev' = CallRecord(key, e, FALSE, NoDownload, e.val, e.at, clock, clock)
               /\ rendered' = Append(rendered, Render(e.val))
               /\ cost' = Append(cost, 0)
               /\ cleared' = cleared \ {key}
               /\ pc' = go /\ idx' = IF go = "inst" THEN idx + 1 ELSE idx
               /\ UNCHANGED <<cache, clock>>
          ELSE IF out.how = "raise"
          THEN /\ pc' = "crashed" /\ clock' = clock + d
               /\ cost' = Append(cost, Len(Fetches(dl)))
               /\ UNCHANGED <<cache, ev, rendered, cleared, idx>>
          ELSE /\ clock' = clock + d
               /\ cache' = Store(cache, key, out.val, clock, clock + d)
               /\ ev' = CallRecord(key, e, TRUE, dl, out.val, clock + d, clock + d, clock)
               /\ rendered' = Append(rendered, Render(out.val))
               /\ cost' = Append(cost, Len(Fetches(dl)))
               /\ cleared' = cleared \ {key}
               /\ pc' = go /\ idx' = IF go = "inst" THEN idx + 1 ELSE idx
  /\ UNCHANGED <<off, called, ret, boot, auto_refresh, button, runs, idles, reqs, walk, ratioAt, net>>

\* st.rerun(): the script starts again from the top.
Rerun ==
  /\ runs < MaxRuns
  /\ runs' = runs + 1
  /\ pc' = "chips" /\ idx' = 1
  /\ requested' = <<>> /\ rendered' = <<>> /\ cost' = <<>>

\* if st.sidebar.button(...): st.cache_data.clear(); st.rerun()  (lines 187-189),
\* in a run the button started.
ButtonRefresh ==
  /\ pc = "sidebar" /\ button
  /\ cache' = Clear(cache) /\ cleared' = Keys
  /\ Rerun
  /\ button' = FALSE
  /\ ratioAt' = -1
  /\ UNCHANGED <<off, called, ret, clock, boot, auto_refresh, idles, reqs, walk, ev, net>>

\* if auto_refresh:  (line 191) -- the countdown starts.
StartCountdown ==
  /\ pc = "sidebar" /\ ~button /\ auto_refresh
  /\ pc' = "countdown"
  /\ UNCHANGED <<idx, off, called, ret, cache, clock, boot, auto_refresh, button, runs, idles,
                 reqs, walk, ev, requested, rendered, cost, cleared, ratioAt, net>>

\* Checkbox not ticked: the script ends and the page waits for the user.
ScriptEnd ==
  /\ pc = "sidebar" /\ ~button /\ ~auto_refresh
  /\ pc' = "idle"
  /\ UNCHANGED <<idx, off, called, ret, cache, clock, boot, auto_refresh, button, runs, idles,
                 reqs, walk, ev, requested, rendered, cost, cleared, ratioAt, net>>

\* The countdown runs out (lines 192-197): 60 sleeps of a second, clear, rerun.
AutoRefreshEarly ==
  /\ pc \in {"inst", "countdown"}
  /\ clock' = clock + CountdownSeconds
  /\ cache' = Clear(cache) /\ cleared' = Keys
  /\ Rerun
  /\ UNCHANGED <<off, called, ret, boot, auto_refresh, button, idles, reqs, walk, ev, ratioAt, net>>
AutoRefresh ==
  /\ pc = "countdown"
  /\ clock' = clock + CountdownSeconds
  /\ cache' = Clear(cache) /\ cleared' = Keys
  /\ Rerun
  /\ UNCHANGED <<off, called, ret, boot, auto_refresh, button, idles, reqs, walk, ev, ratioAt, net>>

\* ------------------------------------------------------------- the user
Waiting == pc \in {"countdown", "idle", "crashed"}
Slept(k) == IF pc = "countdown" THEN k ELSE 0

\* The user flips the checkbox (line 185) after k sleeps of the countdown:
\* Streamlit stops the run and starts the script again; nothing is cleared.
ToggleAutoRefresh(k) ==
  /\ Waiting
  /\ clock' = clock + Slept(k)
  /\ auto_refresh' = ~auto_refresh
  /\ Rerun
  /\ UNCHANGED <<off, called, ret, cache, boot, button, idles, reqs, walk, ev, cleared, ratioAt, net>>

\* The user presses the refresh button (line 187): the script runs again with
\* the button reading True.
ClickButton(k) ==
  /\ Waiting
  /\ clock' = clock + Slept(k)
  /\ button' = TRUE
  /\ Rerun
  /\ UNCHANGED <<off, called, ret, cache, boot, auto_refresh, idles, reqs, walk, ev,
                 cleared, ratioAt, net>>

\* Time passes while the page just sits there.
IdleWait(d) ==
  /\ pc \in {"idle", "crashed"}
  /\ idles < MaxIdle
  /\ idles' = idles + 1
  /\ clock' = clock + d
  /\ UNCHANGED <<pc, idx, off, called, ret, cache, boot, auto_refresh, button, runs, reqs,
                 walk, ev, requested, rendered, cost, cleared, ratioAt, net>>

Next ==
  \/ ChipsCall
  \/ \E resp \in net.responses : Probe(resp, net.lat)
  \/ ChipsReturn
  \/ \E dl \in net.downloads : Instrument(dl, net.lat)
  \/ ButtonRefresh
  \/ StartCountdown
  \/ ScriptEnd
  \/ AutoRefresh
  \/ \E k \in SleepsBeforeEvent : ToggleAutoRefresh(k)
  \/ \E k \in SleepsBeforeEvent : ClickButton(k)
  \/ \E d \in IdleWaits : IdleWait(d)

Spec == Init /\ [][Next]_vars

\* One script run, from the top to the sidebar, in a world where any call may get
\* any answer.
NextRun ==
  \/ ChipsCall
  \/ \E resp \in net.responses : Probe(resp, net.lat)
  \/ ChipsReturn
  \/ \E dl \in net.downloads : Instrument(dl, net.lat)
  \/ StartCountdown

SpecRun == InitRun /\ [][NextRun]_vars

\* The instrument loops fed one download, drawn from the series of up to
\* MinPoints + 1 closes in Prices whose last FreeTail closes are free: the page
\* right after a ratio fetch that found nothing.
Prices == {0, 1, 2}
Padded(n, tail) ==
  [k \in 1..n |-> IF k <= n - FreeTail THEN tail[1] ELSE tail[k - (n - FreeTail)]]
SeriesInputs ==
  {NoDownload} \cup
  { Download(TRUE, Padded(n, tail)) :
      n \in (MinPoints - 1)..(MinPoints + 1), tail \in [1..FreeTail -> Prices] }

InitInd ==
  /\ pc = "inst" /\ idx = 1 /\ off = 0 /\ called = 0 /\ ret = None
  /\ cache = Store([k \in Keys |-> Absent], CHIPS, None, 0, 0)
  /\ clock = 0
  /\ boot \in BootTimes
  /\ auto_refresh = TRUE
  /\ button = FALSE
  /\ runs = 1 /\ idles = 0
  /\ reqs = <<>> /\ walk = NoWalk
  /\ ev = [NoCall EXCEPT !.key = CHIPS, !.computed = TRUE]
  /\ requested = <<CHIPS>> /\ rendered = <<"loading">> /\ cost = <<Horizon>>
  /\ cleared = {}
  /\ ratioAt = -1
  /\ net \in [lat : {0}, responses : {{Resp(TRUE, Decoded(Table(TRUE, <<>>)), Undecodable)}},
              downloads : {{dl} : dl \in SeriesInputs}]

NextInd == \E dl \in net.downloads : Instrument(dl, net.lat)

SpecInd == InitInd /\ [][NextInd]_vars

\* The refresh loop left to itself: the checkbox stays ticked and nobody touches
\* the page, any call may get any answer.  The script is one thread that runs
\* its next statement whenever it has one, and every network call comes back
\* (with data or with a failure), so a step that stays possible is taken.
InitLive == InitScript /\ net \in [lat : {0}, responses : {Responses}, downloads : {Downloads}]

NextLive ==
  \/ NextRun
  \/ AutoRefresh

SpecLive == InitLive /\ [][NextLive]_vars /\ WF_vars(NextLive)

\* ============================================================ the claims
\* The TTL the claims state for a key: 3600 s for the ratio, 60 s for an instrument.
ClaimedTtl(key) == IF key = "get_taifex_chips" THEN 3600 ELSE 60
AllKeysInOrder ==
  <<"get_taifex_chips", "^VIX", "DX-Y.NYB", "^TNX", "JPY=X", "EWT", "BTC-USD">>

\* C1 (as claimed): failures are never cached -- no cache entry ever holds the
\* failure value None, and no call is answered from the cache with None.  The
\* code stores the None its functions return, so this fails.
C1_FailuresNeverCached ==
  /\ \A k \in Keys : cache[k].has => cache[k].val # None
  /\ (ev.key # "" /\ ~ev.computed) => ev.val # None

\* C2: the walk asks for offsets 0,1,2,... in that order, one request each, and
\* when offsets 0..k-1 gave empty tables and offset k a valid table it returns
\* the date label and ratio of the last row of that table after exactly k+1
\* requests; outside a call no request is outstanding.
C2_FirstSuccessWins ==
  /\ \A j \in 1..Len(reqs) : reqs[j].offset = j - 1
  /\ pc = "walk" => Len(reqs) = off
  /\ pc \notin {"walk", "ret", "crashed"} => reqs = <<>>
  /\ (pc = "ret" /\ walk.empties = walk.n - 1 /\ IsValidTable(walk.last)) =>
       LET rows == Decode(walk.last).df.rows IN
         /\ ret.kind = "chips"
         /\ ret.date = rows[Len(rows)].date
         /\ ret.pc_ratio = rows[Len(rows)].ratio.v
         /\ Len(reqs) = walk.empties + 1
         /\ Len(reqs) = walk.n

\* C2 witness: four empty days, then the two-row table at offset 4, returned.
C2_Witness ==
  /\ pc = "ret" /\ walk.n = 5 /\ walk.empties = 4 /\ IsValidTable(walk.last)
  /\ Len(Decode(walk.last).df.rows) = 2
  /\ ret.kind = "chips" /\ ret.date = "11/20"

\* C3: a call never makes more than 7 requests, and when every offset gave an
\* empty table or an error it returns None after exactly 7.
C3_ExhaustedAfterSeven ==
  /\ Len(reqs) <= 7
  /\ (pc = "ret" /\ walk.empties + walk.errors = walk.n) => (ret = None /\ Len(reqs) = 7)
  /\ (pc = "ret" /\ ret = None) => Len(reqs) = 7

\* C3 witness: seven requests, some empty and some in error, None returned.
C3_Witness ==
  /\ pc = "ret" /\ ret = None /\ Len(reqs) = 7
  /\ walk.empties > 0 /\ walk.errors > 0 /\ walk.empties + walk.errors = 7

\* C4: no error of an offset leaves the function; after an error at offset
\* i < 6 the walk stands at offset i+1, and a valid table at a later offset is
\* still returned.
C4_ErrorsSkipped ==
  /\ pc # "crashed"
  /\ (pc = "walk" /\ walk.n > 0 /\ IsError(walk.last)) => (off = walk.n /\ off <= 6)
  /\ (pc = "ret" /\ walk.errors > 0 /\ IsValidTable(walk.last)) => ret.kind = "chips"
  /\ (pc = "ret" /\ IsError(walk.last)) => (walk.n = 7 /\ ret = None)

\* C4 witness: a request that raised, a payload neither decode parsed and a
\* row that could not be extracted, then a valid table that is returned.
C4_Witness ==
  /\ pc = "ret" /\ ret.kind = "chips"
  /\ walk.kinds = {"request", "decode", "extract"}
  /\ walk.empties = 0

\* C5: a call that finds an unexpired entry returns its value without running
\* the function; so two runs of the function for a key with no clear between,
\* the earlier one successful, are at least the key's TTL apart.
C5_HitNeverRecomputes ==
  ev.key # "" =>
    /\ (ev.had /\ ev.called - ev.prevAt < ClaimedTtl(ev.key)) =>
         (~ev.computed /\ ev.val = ev.prevVal /\ ev.at = ev.prevAt)
    /\ (ev.computed /\ ev.had /\ ev.prevVal # None) =>
         ev.called - ev.prevCalled >= ClaimedTtl(ev.key)

\* C5 witness: an instrument's record served from the cache in its last valid second.
C5_Witness ==
  /\ ev.key = "^VIX" /\ ev.had /\ ~ev.computed /\ ev.val # None
  /\ ev.called - ev.prevAt = 59

\* C6: every value a cached call returns was produced less than the key's TTL
\* before the return, and a call that finds an entry of age >= TTL recomputes.
C6_NoExpiredValue ==
  ev.key # "" =>
    /\ ev.now - ev.at < ClaimedTtl(ev.key)
    /\ ev.at <= ev.now
    /\ (ev.had /\ ev.called - ev.prevAt >= ClaimedTtl(ev.key)) => ev.computed

\* C6 witness: the ratio entry found exactly 3600 s old, and recomputed.
C6_Witness ==
  /\ ev.key = "get_taifex_chips" /\ ev.had /\ ev.computed
  /\ ev.called - ev.prevAt = 3600

\* C7: a key not asked for since the last clear has no entry, and its first
\* call after the clear runs the function.
C7_ClearForcesRecompute ==
  /\ \A k \in cleared : ~cache[k].has
  /\ (ev.key # "" /\ ev.first) => (ev.computed /\ ~ev.had)

\* C7 witness: the ratio fetched again right after a clear, less than an hour
\* into the process, so whatever the clear removed had TTL left.
C7_Witness ==
  /\ ev.key = "get_taifex_chips" /\ ev.first /\ ev.computed
  /\ runs >= 2 /\ clock < 3600 /\ ev.val # None

\* C8 (as claimed): short of a manual refresh, a ratio once fetched is reused
\* for 3600 s -- a new walk starts only 3600 s or more after the call that
\* fetched the last ratio.  The countdown's clear makes every cycle fetch again.
C8_RatioReusedAcrossCycles ==
  (pc = "walk" /\ ratioAt >= 0) => called - ratioAt >= 3600

\* C8 (amended): with no clear in between, manual or the countdown's, a ratio
\* once fetched is reused -- while its entry is less than 3600 s old calls are
\* answered from it, and a new walk starts only 3600 s or more after the call
\* that fetched it.
C8_RatioReusedUntilClear ==
  /\ (pc = "walk" /\ cache["get_taifex_chips"].has /\ cache["get_taifex_chips"].val # None) =>
        called - cache["get_taifex_chips"].called >= 3600
  /\ (ev.key = "get_taifex_chips" /\ ev.had /\ ev.prevVal # None
        /\ ev.called - ev.prevAt < 3600) => (~ev.computed /\ ev.val = ev.prevVal)

\* C8 witness: a later run, with no clear since the ratio was fetched, shows
\* the cached ratio a minute or more after it was fetched.
C8_Witness ==
  /\ ev.key = "get_taifex_chips" /\ ev.had /\ ~ev.computed /\ ev.val # None
  /\ runs >= 2 /\ ev.called - ev.prevAt >= 60

\* C9 (as claimed): a download of at least 15 closes whose last 14 changes hold
\* no loss gives None.  The code returns a record with rsi 100 (some gain) or
\* nan (no change at all).
C9_ZeroLossUnavailable ==
  (ev.key \in {"^VIX", "DX-Y.NYB", "^TNX", "JPY=X", "EWT", "BTC-USD"} /\ ev.computed
     /\ ev.src.ok /\ Len(ev.src.close) >= 15
     /\ \A k \in (Len(ev.src.close) - 13)..Len(ev.src.close) :
          ev.src.close[k] >= ev.src.close[k - 1])
  => ev.val = None

\* C10: a run asks the cache for the ratio and then each of the six
\* instruments, once each and in page order, whatever failed before; it shows
\* "loading" exactly for the ones that came back None, and reaches the sidebar.
C10_RunAsksForAll ==
  /\ pc # "crashed"
  /\ Len(requested) <= 7
  /\ \A j \in 1..Len(requested) : requested[j] = AllKeysInOrder[j]
  /\ pc = "inst" => Len(requested) = idx
  /\ pc \in {"sidebar", "countdown", "idle"} => requested = AllKeysInOrder
  /\ pc \in {"inst", "sidebar", "countdown", "idle"} =>
       /\ Len(rendered) = Len(requested)
       /\ \A j \in 1..Len(rendered) :
            rendered[j] = "loading" <=> cache[requested[j]].val = None

\* C10 witness: a run that reached the sidebar after the ratio and three of the
\* instruments failed, failures and successes interleaved.
C10_Witness ==
  /\ pc = "sidebar"
  /\ rendered = <<"loading", "loading", "data", "loading", "data", "data", "loading">>

\* C11: with the checkbox ticked, whatever the fetches of a cycle give, the
\* cycle reaches the countdown and the countdown clears the cache and starts
\* the next cycle -- for every cycle within the runs explored.
C11_CyclesContinue ==
  /\ (pc = "chips") ~> (pc = "countdown")
  /\ (pc = "countdown" /\ runs < MaxRuns) ~> (pc = "chips" /\ \A k \in Keys : ~cache[k].has)

\* C11 witness: a third cycle starting on an emptied cache right after a cycle
\* whose last fetch failed.
C11_Witness ==
  /\ runs = 3 /\ pc = "chips" /\ \A k \in Keys : ~cache[k].has
  /\ ev.key = "BTC-USD" /\ ev.computed /\ ev.val = None

\* C12: a series fetch is all-or-nothing.  A download that raises, or one with
\* fewer than 15 points, gives None; any other result is a whole record of
\* price, change, indicator and history, taken from a download of at least 15
\* points (history the downloaded closes, price the last of them).
C12_AllOrNothing ==
  (ev.key \in {"^VIX", "DX-Y.NYB", "^TNX", "JPY=X", "EWT", "BTC-USD"} /\ ev.computed) =>
    /\ (~ev.src.ok \/ Len(ev.src.close) < 15) => ev.val = None
    /\ ev.val # None =>
         /\ ev.src.ok /\ Len(ev.src.close) >= 15
         /\ DOMAIN ev.val = {"kind", "price", "change", "rsi", "history"}
         /\ ev.val.history = ev.src.close
         /\ ev.val.price = ev.src.close[Len(ev.src.close)]

\* C12 witness: a fetch on exactly 15 points, the smallest download that is
\* not refused, gave a record with moving prices.
C12_Witness ==
  /\ ev.key = "DX-Y.NYB" /\ ev.computed /\ ev.src.ok
  /\ Len(ev.src.close) = 15 /\ ev.val # None
  /\ ev.val.price = 2 /\ ev.val.history[14] = 1
\* C13: the status returned with a ratio is SUPPORTIVE exactly when the ratio
\* is strictly above 100; a ratio of exactly 100 is BEARISH.
C13_StatusStrictlyAbove ==
  (pc = "ret" /\ ret # None) =>
    /\ ret.status \in {"SUPPORTIVE", "BEARISH"}
    /\ ret.status = "SUPPORTIVE" <=> ret.pc_ratio > 100

\* C13 witness: a walk returning a ratio of exactly 100, classified BEARISH.
C13_Witness ==
  pc = "ret" /\ ret # None /\ ret.pc_ratio = 100 /\ ret.status = "BEARISH"
\* C14: for a download of at least 15 closes whose last 14 changes hold some
\* loss, the indicator of the record is a number between 0 and 100, ends
\* included.
C14_IndicatorInRange ==
  (ev.key \in {"^VIX", "DX-Y.NYB", "^TNX", "JPY=X", "EWT", "BTC-USD"} /\ ev.computed
     /\ ev.val # None /\ Len(ev.src.close) >= 15
     /\ \E k \in (Len(ev.src.close) - 13)..Len(ev.src.close) :
          ev.src.close[k] < ev.src.close[k - 1])
  => /\ ev.val.rsi.t = "num" /\ ev.val.rsi.den > 0
     /\ 0 <= ev.val.rsi.num
     /\ ev.val.rsi.num <= 100 * ev.val.rsi.den

\* C14 witness: a record from 16 closes with both gains and losses in the
\* window, its indicator strictly between 0 and 100.
C14_Witness ==
  /\ ev.key = "^TNX" /\ ev.computed /\ ev.val # None /\ Len(ev.src.close) = 16
  /\ ev.val.rsi.t = "num" /\ 0 < ev.val.rsi.num
  /\ ev.val.rsi.num < 100 * ev.val.rsi.den
  /\ \E k \in 3..16 : ev.src.close[k] < ev.src.close[k - 1]

\* C15: a download of at least 15 closes whose second-to-last close is 0 gives
\* None, never a record.
C15_ZeroPreviousClose ==
  (ev.key \in {"^VIX", "DX-Y.NYB", "^TNX", "JPY=X", "EWT", "BTC-USD"} /\ ev.computed
     /\ ev.src.ok /\ Len(ev.src.close) >= 15
     /\ ev.src.close[Len(ev.src.close) - 1] = 0)
  => ev.val = None

\* C15 witness: a fetch whose series ends ..., 0, 2 came back None and the
\* page shows the instrument as loading.
C15_Witness ==
  /\ ev.key = "^VIX" /\ ev.computed /\ ev.src.ok /\ Len(ev.src.close) = 15
  /\ ev.src.close[14] = 0 /\ ev.src.close[15] = 2
  /\ ev.val = None /\ rendered[2] = "loading"
\* C16 (as claimed): in one get_taifex_chips call that came in on Taipei date
\* D, the request at offset i asks for the single date D - i, so the dates
\* asked are distinct and consecutive.  The code takes "today" anew in every
\* iteration: a walk that crosses midnight asks for one date twice.
C16_ConsecutiveDates ==
  /\ \A j \in 1..Len(reqs) : reqs[j].date = Day(boot + called) - reqs[j].offset
  /\ \A j, k \in 1..Len(reqs) : j # k => reqs[j].date # reqs[k].date
\* C17: fetching is sequential.  While the ratio call is in progress no
\* instrument has been asked for in this run; the instruments are asked for in
\* configuration order after it; a step sends a request of the ratio walk or
\* makes one instrument call, never both and never two; and the cache is
\* emptied only by a step taken from the sidebar or the countdown, after all
\* seven calls of the run have returned and with no walk in progress.
C17_Sequential ==
  /\ [](pc \in {"walk", "ret"} => requested = <<"get_taifex_chips">>)
  /\ [](reqs # <<>> => pc \in {"walk", "ret"} /\ Len(cost) = 0)
  /\ [](\A j \in 1..Len(requested) : requested[j] = AllKeysInOrder[j])
  /\ [][ /\ Len(reqs') <= Len(reqs) + 1
         /\ Len(requested') <= Len(requested) + 1
         /\ Len(reqs') = Len(reqs) + 1 => requested' = requested
         /\ ((\E k \in Keys : cache[k].has) /\ (\A k \in Keys : ~cache'[k].has)) =>
               /\ pc \in {"sidebar", "countdown"}
               /\ requested = AllKeysInOrder /\ Len(cost) = 7
               /\ reqs = <<>> ]_vars

\* C17 witness: a second cycle starts on a cache just emptied by the
\* countdown, after the last instrument of the first cycle was fetched.
C17_Witness ==
  /\ pc = "chips" /\ runs = 2 /\ cleared = Keys /\ \A k \in Keys : ~cache[k].has
  /\ ev.key = "BTC-USD" /\ ev.computed /\ ev.val # None
  /\ clock >= 60
\* C18: one run of the script sends at most 13 network requests: at most 7 by
\* the ratio walk, one per offset tried (a response decoded by the fallback
\* included), and for each instrument exactly one if the call missed the cache
\* and none if it was answered from it.
C18_RequestBudget ==
  /\ Len(reqs) <= 7
  /\ \A j \in 1..Len(reqs) : reqs[j].offset = j - 1
  /\ Len(cost) <= 7
  /\ SumSeq(cost) <= 13
  /\ Len(cost) >= 1 => cost[1] <= 7
  /\ \A j \in 2..Len(cost) : cost[j] \in {0, 1}
  /\ (Len(cost) >= 2 /\ ev.key = requested[Len(cost)]) =>
        cost[Len(cost)] = IF ev.computed THEN 1 ELSE 0

\* C18 witness: a run that spent all 13 requests -- seven offsets tried, the
\* last of them giving a ratio, and six instruments fetched, the last in vain.
C18_Witness ==
  /\ pc = "sidebar" /\ SumSeq(cost) = 13 /\ cost[1] = 7
  /\ ev.key = "BTC-USD" /\ ev.computed /\ ev.val = None
  /\ cache["get_taifex_chips"].val # None
====
